---- MODULE Spec2Model ----
(***************************************************************************)
(* Model of the i2cbus access layer (src/i2cbus.c, src/i2cbus.h): the      *)
(* process-wide use-count i2clock_initd, the table i2cbus_locks of         *)
(* recursive pthread mutexes, the i2cbus device descriptors, and the       *)
(* functions i2cbus_open, i2cbus_close, i2cbus_write, i2cbus_read,         *)
(* i2cbus_xfer, i2cbus_lock, i2cbus_trylock and i2cbus_unlock, each cut    *)
(* into the steps at which other threads can interleave.                   *)
(***************************************************************************)
EXTENDS Integers, Sequences, FiniteSets, TLC

(* ------------------------------------------------------------------ *)
(* Program constants                                                   *)
(* ------------------------------------------------------------------ *)
I2CBUS_MAX_NUM == 2

MinAddr == 8

EPERM == 1

EBUSY == 16

EINVAL == 22

BadBus == 100

(* ------------------------------------------------------------------ *)
(* Bounds of the model                                                 *)
(* ------------------------------------------------------------------ *)
MaxLife == 4

MaxCalls == 3

OutLen == 2

InLen == 1

MaxTimeout == 1

\* explicit holds one thread keeps on one bus in the unbounded runs
MaxHold == 1

\* two threads and two device descriptors
Threads == {1, 2}

Main == CHOOSE t \in Threads : \A u \in Threads : t <= u

Devs == {1, 2}

NULL == 0

NoThread == 0

Buses == 0..(I2CBUS_MAX_NUM - 1)

BusArgs == 0..I2CBUS_MAX_NUM

Addrs == {MinAddr - 1, MinAddr}

StdFds == {0, 1, 2}

VARIABLES i2clock_initd, i2cbus_locks, devs, openFds, opened, thr, phase, ncalls,
          reinit, held

vars == <<i2clock_initd, i2cbus_locks, devs, openFds, opened, thr, phase, ncalls,
          reinit, held>>

(* ------------------------------------------------------------------ *)
(* pthread mutex, type PTHREAD_MUTEX_RECURSIVE                         *)
(* st: "uninit" (static storage, never initialised), "init",           *)
(* "destroyed" (destroyed, and the library marks it invalid: later     *)
(* calls return EINVAL), "destroyed_live" (destroyed by a library      *)
(* whose destroy does nothing: the mutex goes on working).  Each       *)
(* operator gives the set of possible outcomes [ret, m]; an empty set  *)
(* means the caller blocks.                                            *)
(* ------------------------------------------------------------------ *)
FreshMutex == [st |-> "init", owner |-> NoThread, count |-> 0]

StaticMutex == [st |-> "uninit", owner |-> NoThread, count |-> 0]

\* mutant: the mutex type is left at the default, so the owner blocks on itself
Mut_Acquire_NonRecursive(m, t) ==
    IF m.owner = NoThread THEN {[ret |-> 0, m |-> [m EXCEPT !.owner = t, !.count = 1]]}
    ELSE {}

Acquire(m, t) ==
    IF m.owner = NoThread THEN {[ret |-> 0, m |-> [m EXCEPT !.owner = t, !.count = 1]]}
    ELSE IF m.owner = t /\ m.st # "uninit"
         THEN {[ret |-> 0, m |-> [m EXCEPT !.count = @ + 1]]}
         ELSE {}

\* mutant: a lock that goes on without the mutex when another thread holds it
Mut_pthread_mutex_lock_NoWait(m, t) ==
    IF m.owner \notin {NoThread, t} THEN {[ret |-> 0, m |-> m]}
    ELSE IF m.owner = NoThread
         THEN {[ret |-> 0, m |-> [m EXCEPT !.owner = t, !.count = 1]]}
         ELSE {[ret |-> 0, m |-> [m EXCEPT !.count = @ + 1]]}

pthread_mutex_lock(m, t) ==
    IF m.st = "destroyed" THEN {[ret |-> EINVAL, m |-> m]}
    ELSE Acquire(m, t)

\* mutant: the blocking call in the place of the non-blocking one
Mut_pthread_mutex_trylock_Blocks(m, t) ==
    IF m.owner = NoThread THEN {[ret |-> 0, m |-> [m EXCEPT !.owner = t, !.count = 1]]}
    ELSE IF m.owner = t THEN {[ret |-> 0, m |-> [m EXCEPT !.count = @ + 1]]}
    ELSE {}

pthread_mutex_trylock(m, t) ==
    LET got == Acquire(m, t)
        busy == IF got = {} THEN {[ret |-> EBUSY, m |-> m]} ELSE got
    IN IF m.st = "destroyed" THEN {[ret |-> EINVAL, m |-> m]} ELSE busy

\* mutant: an unlock that gives back the holds but never the ownership
Mut_Release_KeepOwner(m, t) ==
    IF m.owner = t
    THEN [ret |-> 0, m |-> [m EXCEPT !.count = IF @ > 0 THEN @ - 1 ELSE 0]]
    ELSE [ret |-> EPERM, m |-> m]

\* mutant: an unlock that does not look at the owner
Mut_Release_AnyOwner(m, t) ==
    IF m.count > 1 THEN [ret |-> 0, m |-> [m EXCEPT !.count = @ - 1]]
    ELSE [ret |-> 0, m |-> [m EXCEPT !.owner = NoThread, !.count = 0]]

Release(m, t) ==
    IF m.owner = t
    THEN IF m.count > 1 THEN [ret |-> 0, m |-> [m EXCEPT !.count = @ - 1]]
         ELSE [ret |-> 0, m |-> [m EXCEPT !.owner = NoThread, !.count = 0]]
    ELSE [ret |-> EPERM, m |-> m]

\* a mutex of the default type (the static object before any init) does not
\* check its owner: unlocking it without holding it is undefined, and the
\* libraries unlock it and return 0
pthread_mutex_unlock(m, t) ==
    IF m.st = "destroyed" THEN {[ret |-> EINVAL, m |-> m]}
    ELSE IF m.st = "uninit" /\ m.owner # t
         THEN {[ret |-> 0, m |-> [m EXCEPT !.owner = NoThread, !.count = 0]],
               Release(m, t)}
         ELSE {Release(m, t)}

\* destroying a locked mutex is refused with EBUSY or, where destroy does
\* nothing, leaves the mutex locked
pthread_mutex_destroy(m) ==
    IF m.owner # NoThread
    THEN {[ret |-> EBUSY, m |-> m],
          [ret |-> 0, m |-> [m EXCEPT !.st = "destroyed_live"]]}
    ELSE {[ret |-> 0, m |-> [m EXCEPT !.st = "destroyed"]],
          [ret |-> 0, m |-> [m EXCEPT !.st = "destroyed_live"]]}

(* ------------------------------------------------------------------ *)
(* Threads: one call frame each                                        *)
(* ------------------------------------------------------------------ *)
NoPrev == [op |-> "none", dev |-> NULL, ok |-> FALSE, c0 |-> 0]

NoSnap == [initd |-> 0, st |-> <<>>, fds |-> {}, opened |-> {}]

IdleFrame(p) ==
    [pc |-> "idle", op |-> "none", dev |-> NULL, bus |-> 0, addr |-> 0,
     tmp |-> 0, status |-> 0, ret |-> 0, tmo |-> 0, wres |-> 0,
     log |-> <<>>, h0 |-> 0, obs |-> <<>>, snap |-> NoSnap, prev |-> p]

Snapshot ==
    [initd |-> i2clock_initd,
     st |-> [b \in Buses |-> i2cbus_locks[b].st],
     fds |-> openFds,
     opened |-> opened]

NoCtx == 0

I2CBUS_CTX_0 == 10

FreshDev == [fd |-> -1, id |-> -1, lock |-> -1, ctx |-> NoCtx]

LowestFreeFd == CHOOSE f \in 0..(Cardinality(openFds) + 3) :
                    /\ f \notin openFds \cup StdFds
                    /\ \A g \in 0..(f - 1) : g \in openFds \cup StdFds

Init ==
    /\ i2clock_initd = 0
    /\ i2cbus_locks = [b \in Buses |-> StaticMutex]
    /\ devs = [d \in Devs |-> FreshDev]
    /\ openFds = {}
    /\ opened = {}
    /\ thr = [t \in Threads |-> IdleFrame(NoPrev)]
    /\ phase = "setup"
    /\ ncalls = 0
    /\ reinit = FALSE
    /\ held = [t \in Threads |-> [b \in Buses |-> 0]]

Idle(t) == thr[t].pc = "idle"

\* in the phase "free" the threads go on calling for ever and calls are not
\* counted
Budget == phase = "free" \/ ncalls < (IF phase = "setup" THEN MaxLife ELSE MaxCalls)

Counted == IF phase = "free" THEN ncalls ELSE ncalls + 1

(* ------------------------------------------------------------------ *)
(* i2cbus_open                                                         *)
(* ------------------------------------------------------------------ *)
\* entry, and the read half of `i2clock_initd++`
i2cbus_open_call(t, d, id, addr) ==
    /\ Idle(t) /\ Budget
    /\ thr' = [thr EXCEPT ![t] = [@ EXCEPT !.pc = "open_inc", !.op = "open",
                   !.dev = d, !.bus = id, !.addr = addr, !.tmp = i2clock_initd,
                   !.snap = Snapshot]]
    /\ ncalls' = Counted
    /\ UNCHANGED <<i2clock_initd, i2cbus_locks, devs, openFds, opened, phase, reinit, held>>

\* the write half of `i2clock_initd++ == 0`
i2cbus_open_inc(t) ==
    /\ thr[t].pc = "open_inc"
    /\ i2clock_initd' = thr[t].tmp + 1
    /\ thr' = [thr EXCEPT ![t].pc = IF thr[t].tmp = 0 THEN "open_init" ELSE "open_body"]
    /\ UNCHANGED <<i2cbus_locks, devs, openFds, opened, phase, ncalls, reinit, held>>

\* the mutex initialisation loop; fail = -1: nothing fails, I2CBUS_MAX_NUM: a
\* pthread_mutexattr call fails (no mutex initialised), i < I2CBUS_MAX_NUM:
\* pthread_mutex_init fails at index i (the mutexes below i are initialised)
InitReaches(fail, b) == fail = -1 \/ (fail < I2CBUS_MAX_NUM /\ b < fail)

InitLocks(locks, fail) ==
    [b \in Buses |-> IF InitReaches(fail, b) THEN FreshMutex ELSE locks[b]]

i2cbus_open_init(t, fail) ==
    /\ thr[t].pc = "open_init"
    /\ i2cbus_locks' = InitLocks(i2cbus_locks, fail)
    /\ reinit' = (reinit \/ \E b \in Buses :
                                InitReaches(fail, b) /\ i2cbus_locks[b].st = "init")
    /\ thr' = [thr EXCEPT ![t] =
                 IF fail = -1 THEN [@ EXCEPT !.pc = "open_body"]
                 ELSE [@ EXCEPT !.pc = "open_err", !.tmp = i2clock_initd,
                                !.status = IF fail = I2CBUS_MAX_NUM THEN -1 ELSE -2]]
    /\ UNCHANGED <<i2clock_initd, devs, openFds, opened, phase, ncalls, held>>

\* the argument checks, open() and ioctl(); tr: "ok", "open" (open() fails),
\* "ioctl" (the I2C_SLAVE ioctl fails)
\* mutant: the address check is missing
Mut_OpenCheck_NoAddr(d, id, addr) ==
    IF d = NULL THEN -3
    ELSE IF ~(id < I2CBUS_MAX_NUM) THEN -4
    ELSE 0

OpenCheck(d, id, addr) ==
    IF d = NULL THEN -3
    ELSE IF ~(id < I2CBUS_MAX_NUM) THEN -4
    ELSE IF addr < MinAddr THEN -5
    ELSE 0

i2cbus_open_body(t, tr) ==
    /\ thr[t].pc = "open_body"
    /\ LET f == thr[t]
           chk == OpenCheck(f.dev, f.bus, f.addr)
           fd == LowestFreeFd
       IN IF chk # 0
          THEN /\ thr' = [thr EXCEPT ![t] = [@ EXCEPT !.pc = "open_err", !.status = chk,
                              !.tmp = i2clock_initd]]
               /\ UNCHANGED <<devs, openFds, opened>>
          ELSE IF tr = "open"
          THEN /\ devs' = [devs EXCEPT ![f.dev].fd = -1]
               /\ thr' = [thr EXCEPT ![t] = [@ EXCEPT !.pc = "open_err", !.status = -1,
                              !.tmp = i2clock_initd, !.log = Append(@, "open")]]
               /\ UNCHANGED <<openFds, opened>>
          ELSE IF tr = "ioctl"
          THEN /\ devs' = [devs EXCEPT ![f.dev].fd = fd]
               /\ thr' = [thr EXCEPT ![t] = [@ EXCEPT !.pc = "open_err", !.status = -1,
                              !.tmp = i2clock_initd,
                              !.log = @ \o <<"open", "ioctl", "close">>]]
               /\ UNCHANGED <<openFds, opened>>
          ELSE /\ devs' = [devs EXCEPT ![f.dev] = [@ EXCEPT !.fd = fd, !.id = f.bus,
                                                       !.lock = f.bus]]
               /\ openFds' = openFds \cup {fd}
               /\ opened' = opened \cup {f.dev}
               /\ thr' = [thr EXCEPT ![t] = [@ EXCEPT !.pc = "done", !.ret = fd,
                              !.log = @ \o <<"open", "ioctl">>]]
    /\ UNCHANGED <<i2clock_initd, i2cbus_locks, phase, ncalls, reinit, held>>

\* err: the write half of `i2clock_initd--`, return -1
i2cbus_open_err(t) ==
    /\ thr[t].pc = "open_err"
    /\ i2clock_initd' = thr[t].tmp - 1
    /\ thr' = [thr EXCEPT ![t] = [@ EXCEPT !.pc = "done", !.ret = -1]]
    /\ UNCHANGED <<i2cbus_locks, devs, openFds, opened, phase, ncalls, reinit, held>>

(* ------------------------------------------------------------------ *)
(* i2cbus_close                                                        *)
(* ------------------------------------------------------------------ *)
\* entry, and the read half of `--i2clock_initd`
i2cbus_close_call(t, d) ==
    /\ Idle(t) /\ Budget
    /\ thr' = [thr EXCEPT ![t] = [@ EXCEPT !.pc = "close_dec", !.op = "close",
                   !.dev = d, !.tmp = i2clock_initd, !.snap = Snapshot]]
    /\ ncalls' = Counted
    /\ UNCHANGED <<i2clock_initd, i2cbus_locks, devs, openFds, opened, phase, reinit, held>>

\* mutant: the use-count is tested but not written back
Mut_i2cbus_close_dec_KeepCount(t) ==
    /\ thr[t].pc = "close_dec"
    /\ thr' = [thr EXCEPT ![t].pc = IF thr[t].tmp - 1 = 0 THEN "close_destroy"
                                    ELSE "close_fd"]
    /\ UNCHANGED <<i2clock_initd, i2cbus_locks, devs, openFds, opened, phase, ncalls,
                   reinit, held>>

\* the write half of `--i2clock_initd == 0`
i2cbus_close_dec(t) ==
    /\ thr[t].pc = "close_dec"
    /\ i2clock_initd' = thr[t].tmp - 1
    /\ thr' = [thr EXCEPT ![t].pc = IF thr[t].tmp - 1 = 0 THEN "close_destroy"
                                    ELSE "close_fd"]
    /\ UNCHANGED <<i2cbus_locks, devs, openFds, opened, phase, ncalls, reinit, held>>

\* the destroy loop from index b on: the possible [ret, locks] results; the
\* loop returns at the first mutex whose destruction fails
RECURSIVE DestroyFrom(_, _)
DestroyFrom(locks, b) ==
    IF b = I2CBUS_MAX_NUM THEN {[ret |-> 0, locks |-> locks]}
    ELSE UNION {IF o.ret # 0 THEN {[ret |-> -1, locks |-> locks]}
                ELSE DestroyFrom([locks EXCEPT ![b] = o.m], b + 1)
                : o \in pthread_mutex_destroy(locks[b])}

i2cbus_close_destroy(t) ==
    /\ thr[t].pc = "close_destroy"
    /\ \E r \in DestroyFrom(i2cbus_locks, 0) :
          /\ i2cbus_locks' = r.locks
          /\ thr' = [thr EXCEPT ![t] = IF r.ret # 0
                                       THEN [@ EXCEPT !.pc = "done", !.ret = -1]
                                       ELSE [@ EXCEPT !.pc = "close_fd"]]
    /\ UNCHANGED <<i2clock_initd, devs, openFds, opened, phase, ncalls, reinit, held>>

\* the descriptor part: close(dev->fd) when dev != NULL and dev->fd > 0
i2cbus_close_fd(t) ==
    /\ thr[t].pc = "close_fd"
    /\ LET d == thr[t].dev
       IN IF d = NULL
          THEN /\ thr' = [thr EXCEPT ![t] = [@ EXCEPT !.pc = "done", !.ret = -3]]
               /\ UNCHANGED <<openFds, opened>>
          ELSE IF devs[d].fd > 0
          THEN /\ openFds' = openFds \ {devs[d].fd}
               /\ opened' = {e \in opened : devs[e].fd # devs[d].fd}
               /\ thr' = [thr EXCEPT ![t] = [@ EXCEPT !.pc = "done",
                              !.ret = IF devs[d].fd \in openFds THEN 0 ELSE -1,
                              !.log = Append(@, "close")]]
          ELSE /\ thr' = [thr EXCEPT ![t] = [@ EXCEPT !.pc = "done", !.ret = -1]]
               /\ UNCHANGED <<openFds, opened>>
    /\ UNCHANGED <<i2clock_initd, i2cbus_locks, devs, phase, ncalls, reinit, held>>

(* ------------------------------------------------------------------ *)
(* i2cbus_write, i2cbus_read                                           *)
(* ------------------------------------------------------------------ *)
HoldCount(t, b) == IF i2cbus_locks[b].owner = t THEN i2cbus_locks[b].count ELSE 0

\* the "usual checks" of write, read and xfer on a descriptor d # NULL
BadArgs(d, bufNull) == devs[d].fd < 0 \/ bufNull

\* With dev == NULL the check is true and its eprintf reads dev->fd through
\* the null pointer: the process is killed by the fault, or the read yields
\* some value and the function goes on to return -1.
NullDevOutcomes(d) == IF d = NULL THEN {"fault", "return"} ELSE {"return"}

Crashed == [t \in Threads |-> [thr[t] EXCEPT !.pc = "crash"]]

\* the process has not been killed
Alive == \A t \in Threads : thr[t].pc # "crash"

\* entry of write ("write") or read ("read") with the argument checks
i2cbus_rw_call(t, op, d, bufNull) ==
    /\ Idle(t) /\ Budget
    /\ \E out \in NullDevOutcomes(d) :
        thr' = IF out = "fault" THEN [Crashed EXCEPT ![t].op = op, ![t].dev = d]
               ELSE [thr EXCEPT ![t] =
                 IF d = NULL \/ BadArgs(d, bufNull)
                 THEN [@ EXCEPT !.pc = "done", !.op = op, !.dev = d, !.ret = -1]
                 ELSE [@ EXCEPT !.pc = "rw_lock", !.op = op, !.dev = d,
                                !.bus = devs[d].lock,
                                !.h0 = HoldCount(t, devs[d].lock)]]
    /\ ncalls' = Counted
    /\ UNCHANGED <<i2clock_initd, i2cbus_locks, devs, openFds, opened, phase, reinit, held>>

\* mutant: write()/read() entered without taking the mutex
Mut_i2cbus_rw_lock_NoLock(t) ==
    /\ thr[t].pc = "rw_lock"
    /\ thr' = [thr EXCEPT ![t] = [@ EXCEPT !.pc = "rw_io", !.log = Append(@, thr[t].op)]]
    /\ UNCHANGED <<i2clock_initd, i2cbus_locks, devs, openFds, opened, phase, ncalls,
                   reinit, held>>

\* pthread_mutex_lock(dev->lock); on success the thread enters write()/read()
i2cbus_rw_lock(t) ==
    /\ thr[t].pc = "rw_lock"
    /\ \E o \in pthread_mutex_lock(i2cbus_locks[thr[t].bus], t) :
          /\ i2cbus_locks' = [i2cbus_locks EXCEPT ![thr[t].bus] = o.m]
          /\ thr' = [thr EXCEPT ![t] =
                       IF o.ret # 0 THEN [@ EXCEPT !.pc = "done", !.ret = -1]
                       ELSE [@ EXCEPT !.pc = "rw_io", !.log = Append(@, thr[t].op)]]
    /\ UNCHANGED <<i2clock_initd, devs, openFds, opened, phase, ncalls, reinit, held>>

\* write()/read() returns n: -1, a short count or len
i2cbus_rw_io(t, n) ==
    /\ thr[t].pc = "rw_io"
    /\ thr' = [thr EXCEPT ![t] = [@ EXCEPT !.pc = "rw_unlock", !.status = n]]
    /\ UNCHANGED <<i2clock_initd, i2cbus_locks, devs, openFds, opened, phase, ncalls, reinit, held>>

\* pthread_mutex_unlock(dev->lock); return status
i2cbus_rw_unlock(t) ==
    /\ thr[t].pc = "rw_unlock"
    /\ \E o \in pthread_mutex_unlock(i2cbus_locks[thr[t].bus], t) :
          i2cbus_locks' = [i2cbus_locks EXCEPT ![thr[t].bus] = o.m]
    /\ thr' = [thr EXCEPT ![t] = [@ EXCEPT !.pc = "done", !.ret = thr[t].status]]
    /\ UNCHANGED <<i2clock_initd, devs, openFds, opened, phase, ncalls, reinit, held>>

(* ------------------------------------------------------------------ *)
(* i2cbus_xfer                                                         *)
(* ------------------------------------------------------------------ *)
i2cbus_xfer_call(t, d, outNull, inNull, tmo) ==
    /\ Idle(t) /\ Budget
    /\ \E out \in NullDevOutcomes(d) :
        thr' = IF out = "fault" THEN [Crashed EXCEPT ![t].op = "xfer", ![t].dev = d]
               ELSE [thr EXCEPT ![t] =
                 IF d = NULL \/ BadArgs(d, outNull) \/ inNull
                 THEN [@ EXCEPT !.pc = "done", !.op = "xfer", !.dev = d, !.tmo = tmo,
                                !.ret = -1]
                 ELSE [@ EXCEPT !.pc = "xfer_lock", !.op = "xfer", !.dev = d,
                                !.tmo = tmo, !.bus = devs[d].lock,
                                !.h0 = HoldCount(t, devs[d].lock)]]
    /\ ncalls' = Counted
    /\ UNCHANGED <<i2clock_initd, i2cbus_locks, devs, openFds, opened, phase, reinit, held>>

\* pthread_mutex_lock(dev->lock); on success the thread enters write()
i2cbus_xfer_lock(t) ==
    /\ thr[t].pc = "xfer_lock"
    /\ \E o \in pthread_mutex_lock(i2cbus_locks[thr[t].bus], t) :
          /\ i2cbus_locks' = [i2cbus_locks EXCEPT ![thr[t].bus] = o.m]
          /\ thr' = [thr EXCEPT ![t] =
                       IF o.ret # 0 THEN [@ EXCEPT !.pc = "done", !.ret = -1]
                       ELSE [@ EXCEPT !.pc = "xfer_wr", !.log = Append(@, "write")]]
    /\ UNCHANGED <<i2clock_initd, devs, openFds, opened, phase, ncalls, reinit, held>>

\* mutant: the sleep is made whatever timeout_usec is
Mut_AfterWrite_SleepAlways(n, outlen, tmo) ==
    IF n # outlen THEN "xfer_unlock" ELSE "xfer_sleep"

\* mutant: a short write does not stop the transfer
Mut_AfterWrite_ReadAnyway(n, outlen, tmo) ==
    IF tmo > 0 THEN "xfer_sleep" ELSE "xfer_rd"

\* The pc after write() returned n
AfterWrite(n, outlen, tmo) ==
    IF n # outlen THEN "xfer_unlock"
    ELSE IF tmo > 0 THEN "xfer_sleep" ELSE "xfer_rd"

\* mutant: an incomplete write returns at once, the mutex still locked
Mut_i2cbus_xfer_wr_ReturnHeld(t, n) ==
    /\ thr[t].pc = "xfer_wr"
    /\ LET nxt == AfterWrite(n, OutLen, thr[t].tmo)
       IN thr' = [thr EXCEPT ![t] =
                    IF nxt = "xfer_unlock"
                    THEN [@ EXCEPT !.pc = "done", !.status = n, !.wres = n, !.ret = n]
                    ELSE [@ EXCEPT !.pc = nxt, !.status = n, !.wres = n,
                                   !.log = IF nxt = "xfer_rd" THEN Append(@, "read") ELSE @]]
    /\ UNCHANGED <<i2clock_initd, i2cbus_locks, devs, openFds, opened, phase, ncalls, reinit, held>>

\* write() returns n; a complete write goes on to usleep() or read()
i2cbus_xfer_wr(t, n) ==
    /\ thr[t].pc = "xfer_wr"
    /\ LET nxt == AfterWrite(n, OutLen, thr[t].tmo)
       IN thr' = [thr EXCEPT ![t] = [@ EXCEPT !.pc = nxt, !.status = n, !.wres = n,
                      !.log = IF nxt = "xfer_rd" THEN Append(@, "read") ELSE @]]
    /\ UNCHANGED <<i2clock_initd, i2cbus_locks, devs, openFds, opened, phase, ncalls, reinit, held>>

\* usleep(timeout_usec) returns and the thread enters read()
i2cbus_xfer_sleep(t) ==
    /\ thr[t].pc = "xfer_sleep"
    /\ thr' = [thr EXCEPT ![t] = [@ EXCEPT !.pc = "xfer_rd",
                                            !.log = @ \o <<"sleep", "read">>]]
    /\ UNCHANGED <<i2clock_initd, i2cbus_locks, devs, openFds, opened, phase, ncalls, reinit, held>>

\* read() returns n
i2cbus_xfer_rd(t, n) ==
    /\ thr[t].pc = "xfer_rd"
    /\ thr' = [thr EXCEPT ![t] = [@ EXCEPT !.pc = "xfer_unlock", !.status = n]]
    /\ UNCHANGED <<i2clock_initd, i2cbus_locks, devs, openFds, opened, phase, ncalls, reinit, held>>

\* ret: pthread_mutex_unlock(dev->lock); return status
i2cbus_xfer_unlock(t) ==
    /\ thr[t].pc = "xfer_unlock"
    /\ \E o \in pthread_mutex_unlock(i2cbus_locks[thr[t].bus], t) :
          i2cbus_locks' = [i2cbus_locks EXCEPT ![thr[t].bus] = o.m]
    /\ thr' = [thr EXCEPT ![t] = [@ EXCEPT !.pc = "done", !.ret = thr[t].status]]
    /\ UNCHANGED <<i2clock_initd, devs, openFds, opened, phase, ncalls, reinit, held>>

(* ------------------------------------------------------------------ *)
(* i2cbus_lock, i2cbus_trylock, i2cbus_unlock                          *)
(* ------------------------------------------------------------------ *)
i2cbus_lock_call(t, bus) ==
    /\ Idle(t) /\ Budget
    /\ thr' = [thr EXCEPT ![t] =
                 IF bus >= I2CBUS_MAX_NUM
                 THEN [@ EXCEPT !.pc = "done", !.op = "lock", !.bus = bus, !.ret = -BadBus]
                 ELSE [@ EXCEPT !.pc = "lock_wait", !.op = "lock", !.bus = bus,
                                !.h0 = HoldCount(t, bus)]]
    /\ ncalls' = Counted
    /\ UNCHANGED <<i2clock_initd, i2cbus_locks, devs, openFds, opened, phase, reinit, held>>

\* mutant: the result of pthread_mutex_lock is returned as it is
Mut_i2cbus_lock_wait_RetRaw(t) ==
    /\ thr[t].pc = "lock_wait"
    /\ \E o \in pthread_mutex_lock(i2cbus_locks[thr[t].bus], t) :
          /\ i2cbus_locks' = [i2cbus_locks EXCEPT ![thr[t].bus] = o.m]
          /\ thr' = [thr EXCEPT ![t] = [@ EXCEPT !.pc = "done", !.ret = o.ret]]
          /\ held' = IF o.ret = 0 THEN [held EXCEPT ![t][thr[t].bus] = @ + 1] ELSE held
    /\ UNCHANGED <<i2clock_initd, devs, openFds, opened, phase, ncalls, reinit>>

\* ret = pthread_mutex_lock(&i2cbus_locks[bus]); return ret ? -ret : 1
i2cbus_lock_wait(t) ==
    /\ thr[t].pc = "lock_wait"
    /\ \E o \in pthread_mutex_lock(i2cbus_locks[thr[t].bus], t) :
          /\ i2cbus_locks' = [i2cbus_locks EXCEPT ![thr[t].bus] = o.m]
          /\ thr' = [thr EXCEPT ![t] = [@ EXCEPT !.pc = "done",
                         !.ret = IF o.ret # 0 THEN -o.ret ELSE 1]]
          /\ held' = IF o.ret = 0 THEN [held EXCEPT ![t][thr[t].bus] = @ + 1] ELSE held
    /\ UNCHANGED <<i2clock_initd, devs, openFds, opened, phase, ncalls, reinit>>

i2cbus_trylock_call(t, bus) ==
    /\ Idle(t) /\ Budget
    /\ thr' = [thr EXCEPT ![t] =
                 IF bus >= I2CBUS_MAX_NUM
                 THEN [@ EXCEPT !.pc = "done", !.op = "trylock", !.bus = bus,
                                !.ret = -BadBus]
                 ELSE [@ EXCEPT !.pc = "trylock_try", !.op = "trylock", !.bus = bus,
                                !.h0 = HoldCount(t, bus)]]
    /\ ncalls' = Counted
    /\ UNCHANGED <<i2clock_initd, i2cbus_locks, devs, openFds, opened, phase, reinit, held>>

\* ret = pthread_mutex_trylock(&i2cbus_locks[bus]); return ret ? -ret : 1
i2cbus_trylock_try(t) ==
    /\ thr[t].pc = "trylock_try"
    /\ \E o \in pthread_mutex_trylock(i2cbus_locks[thr[t].bus], t) :
          /\ i2cbus_locks' = [i2cbus_locks EXCEPT ![thr[t].bus] = o.m]
          /\ thr' = [thr EXCEPT ![t] = [@ EXCEPT !.pc = "done",
                         !.ret = IF o.ret # 0 THEN -o.ret ELSE 1,
                         !.obs = <<i2cbus_locks[thr[t].bus], o.m>>]]
          /\ held' = IF o.ret = 0 THEN [held EXCEPT ![t][thr[t].bus] = @ + 1] ELSE held
    /\ UNCHANGED <<i2clock_initd, devs, openFds, opened, phase, ncalls, reinit>>

\* ret = pthread_mutex_unlock(&i2cbus_locks[bus]); return ret ? -ret : 1
i2cbus_unlock(t, bus) ==
    /\ Idle(t) /\ Budget
    /\ IF bus >= I2CBUS_MAX_NUM
       THEN /\ thr' = [thr EXCEPT ![t] = [@ EXCEPT !.pc = "done", !.op = "unlock",
                           !.bus = bus, !.ret = -BadBus]]
            /\ UNCHANGED <<i2cbus_locks, held>>
       ELSE \E o \in pthread_mutex_unlock(i2cbus_locks[bus], t) :
              /\ i2cbus_locks' = [i2cbus_locks EXCEPT ![bus] = o.m]
              /\ thr' = [thr EXCEPT ![t] = [@ EXCEPT !.pc = "done", !.op = "unlock",
                             !.bus = bus, !.h0 = HoldCount(t, bus),
                             !.obs = <<i2cbus_locks[bus], o.m>>,
                             !.ret = IF o.ret # 0 THEN -o.ret ELSE 1]]
              /\ held' = IF o.ret = 0 /\ held[t][bus] > 0
                         THEN [held EXCEPT ![t][bus] = @ - 1] ELSE held
    /\ ncalls' = Counted
    /\ UNCHANGED <<i2clock_initd, devs, openFds, opened, phase, reinit>>

(* ------------------------------------------------------------------ *)
(* Return to the caller                                                *)
(* ------------------------------------------------------------------ *)
Return(t) ==
    /\ thr[t].pc = "done"
    /\ thr' = [thr EXCEPT ![t] =
                 IdleFrame(IF thr[t].op = "open"
                           THEN [op |-> "open", dev |-> thr[t].dev,
                                 ok |-> thr[t].ret >= 0, c0 |-> thr[t].snap.initd]
                           ELSE NoPrev)]
    /\ UNCHANGED <<i2clock_initd, i2cbus_locks, devs, openFds, opened, phase, ncalls, reinit, held>>

(* ------------------------------------------------------------------ *)
(* Handles as the caller sees them                                     *)
(* ------------------------------------------------------------------ *)
\* the handles whose last open succeeded and whose descriptor is not closed
OpenHandles == opened

(* ------------------------------------------------------------------ *)
(* One thread opening and closing handles                              *)
(* ------------------------------------------------------------------ *)
NextLife ==
    \/ \E d \in Devs \cup {NULL}, id \in BusArgs, a \in Addrs :
          i2cbus_open_call(Main, d, id, a)
    \/ i2cbus_open_inc(Main)
    \/ \E fail \in -1..I2CBUS_MAX_NUM : i2cbus_open_init(Main, fail)
    \/ \E tr \in {"ok", "open", "ioctl"} : i2cbus_open_body(Main, tr)
    \/ i2cbus_open_err(Main)
    \/ \E d \in Devs \cup {NULL} : i2cbus_close_call(Main, d)
    \/ i2cbus_close_dec(Main)
    \/ i2cbus_close_destroy(Main)
    \/ i2cbus_close_fd(Main)
    \/ Return(Main)

SpecLife == Init /\ [][NextLife]_vars

(* ------------------------------------------------------------------ *)
(* One thread opening, locking and closing                             *)
(* ------------------------------------------------------------------ *)
NextHold ==
    \/ \E d \in Devs, id \in Buses : i2cbus_open_call(Main, d, id, MinAddr)
    \/ i2cbus_open_inc(Main)
    \/ i2cbus_open_init(Main, -1)
    \/ i2cbus_open_body(Main, "ok")
    \/ \E d \in Devs : i2cbus_close_call(Main, d)
    \/ i2cbus_close_dec(Main)
    \/ i2cbus_close_destroy(Main)
    \/ i2cbus_close_fd(Main)
    \/ \E b \in Buses : i2cbus_lock_call(Main, b)
    \/ i2cbus_lock_wait(Main)
    \/ \E b \in Buses : i2cbus_unlock(Main, b)
    \/ Return(Main)

SpecHold == Init /\ [][NextHold]_vars

(* ------------------------------------------------------------------ *)
(* Every thread opening, using and closing a descriptor of its own     *)
(* ------------------------------------------------------------------ *)
\* the descriptor of thread t
OwnDev(t) == t

NextConc ==
    \E t \in Threads :
        \/ /\ OwnDev(t) \notin opened
           /\ \E id \in Buses : i2cbus_open_call(t, OwnDev(t), id, MinAddr)
        \/ i2cbus_open_inc(t)
        \/ i2cbus_open_init(t, -1)
        \/ i2cbus_open_body(t, "ok")
        \/ OwnDev(t) \in opened /\ i2cbus_close_call(t, OwnDev(t))
        \/ i2cbus_close_dec(t)
        \/ i2cbus_close_destroy(t)
        \/ i2cbus_close_fd(t)
        \/ /\ OwnDev(t) \in opened
           /\ \E op \in {"write", "read"} : i2cbus_rw_call(t, op, OwnDev(t), FALSE)
        \/ i2cbus_rw_lock(t)
        \/ \E n \in {-1, InLen} : i2cbus_rw_io(t, n)
        \/ i2cbus_rw_unlock(t)
        \/ Return(t)

SpecConc == Init /\ [][NextConc]_vars

(* ------------------------------------------------------------------ *)
(* One thread opening handles while every thread locks and unlocks     *)
(* buses, with valid and invalid bus indexes                           *)
(* ------------------------------------------------------------------ *)
NextLock ==
    \/ \E d \in Devs \ opened, id \in Buses : i2cbus_open_call(Main, d, id, MinAddr)
    \/ i2cbus_open_inc(Main)
    \/ i2cbus_open_init(Main, -1)
    \/ i2cbus_open_body(Main, "ok")
    \/ \E t \in Threads :
          \/ \E b \in BusArgs : i2cbus_lock_call(t, b)
          \/ i2cbus_lock_wait(t)
          \/ \E b \in BusArgs : i2cbus_trylock_call(t, b)
          \/ i2cbus_trylock_try(t)
          \/ \E b \in BusArgs : i2cbus_unlock(t, b)
          \/ Return(t)

SpecLock == Init /\ [][NextLock]_vars

(* ------------------------------------------------------------------ *)
(* Handles opened by one thread, then used by all threads              *)
(* ------------------------------------------------------------------ *)
\* the opening thread starts the other threads once a handle is open
Spawn ==
    /\ phase = "setup"
    /\ \A t \in Threads : Idle(t)
    /\ OpenHandles # {}
    /\ phase' = "run"
    /\ ncalls' = 0
    /\ thr' = [t \in Threads |-> IdleFrame(NoPrev)]
    /\ UNCHANGED <<i2clock_initd, i2cbus_locks, devs, openFds, opened, reinit, held>>

Running == phase = "run"

Next ==
    \/ /\ phase = "setup"
       /\ \E d \in Devs \ opened, id \in Buses :
             /\ \A e \in Devs : e < d => e \in opened
             /\ i2cbus_open_call(Main, d, id, MinAddr)
    \/ i2cbus_open_inc(Main)
    \/ i2cbus_open_init(Main, -1)
    \/ i2cbus_open_body(Main, "ok")
    \/ Spawn
    \/ \E t \in Threads :
          \/ /\ Running
             /\ \E op \in {"write", "read"}, d \in OpenHandles :
                   i2cbus_rw_call(t, op, d, FALSE)
          \/ i2cbus_rw_lock(t)
          \/ \E n \in -1..InLen : i2cbus_rw_io(t, n)
          \/ i2cbus_rw_unlock(t)
          \/ /\ Running
             /\ \E d \in OpenHandles, tmo \in {0, MaxTimeout} :
                   i2cbus_xfer_call(t, d, FALSE, FALSE, tmo)
          \/ i2cbus_xfer_lock(t)
          \/ \E n \in -1..OutLen : i2cbus_xfer_wr(t, n)
          \/ i2cbus_xfer_sleep(t)
          \/ \E n \in -1..InLen : i2cbus_xfer_rd(t, n)
          \/ i2cbus_xfer_unlock(t)
          \/ Running /\ \E b \in Buses : i2cbus_lock_call(t, b)
          \/ i2cbus_lock_wait(t)
          \/ Running /\ \E b \in Buses : i2cbus_trylock_call(t, b)
          \/ i2cbus_trylock_try(t)
          \/ Running /\ \E b \in Buses : i2cbus_unlock(t, b)
          \/ Return(t)

Spec == Init /\ [][Next]_vars

(* ------------------------------------------------------------------ *)
(* Handles opened by one thread, then used by all threads for ever,    *)
(* with fair scheduling and fair granting of the mutexes               *)
(* ------------------------------------------------------------------ *)
SpawnFree ==
    /\ phase = "setup"
    /\ \A t \in Threads : Idle(t)
    /\ OpenHandles # {}
    /\ phase' = "free"
    /\ ncalls' = 0
    /\ thr' = [t \in Threads |-> IdleFrame(NoPrev)]
    /\ UNCHANGED <<i2clock_initd, i2cbus_locks, devs, openFds, opened, reinit, held>>

Free == phase = "free"

\* an i2cbus_unlock by a thread that has an explicit hold to give back
UnlockHeld(t, b) == held[t][b] > 0 /\ i2cbus_unlock(t, b)

\* the steps of a call that do not wait for anything
Proceed(t) ==
    \/ \E n \in {-1, InLen} : i2cbus_rw_io(t, n)
    \/ i2cbus_rw_unlock(t)
    \/ \E n \in {-1, 0, OutLen} : i2cbus_xfer_wr(t, n)
    \/ i2cbus_xfer_sleep(t)
    \/ \E n \in {-1, InLen} : i2cbus_xfer_rd(t, n)
    \/ i2cbus_xfer_unlock(t)
    \/ i2cbus_trylock_try(t)
    \/ Return(t)

\* pthread_mutex_lock returns in write, read, xfer or i2cbus_lock
Granted(t) == i2cbus_rw_lock(t) \/ i2cbus_xfer_lock(t) \/ i2cbus_lock_wait(t)

NextFair ==
    \/ /\ phase = "setup"
       /\ \E d \in Devs \ opened, id \in Buses :
             /\ \A e \in Devs : e < d => e \in opened
             /\ i2cbus_open_call(Main, d, id, MinAddr)
    \/ i2cbus_open_inc(Main)
    \/ i2cbus_open_init(Main, -1)
    \/ i2cbus_open_body(Main, "ok")
    \/ SpawnFree
    \/ \E t \in Threads :
          \/ Free /\ \E d \in OpenHandles : i2cbus_rw_call(t, "write", d, FALSE)
          \/ Free /\ \E d \in OpenHandles : i2cbus_xfer_call(t, d, FALSE, FALSE, MaxTimeout)
          \/ Free /\ \E b \in Buses : held[t][b] < MaxHold /\ i2cbus_lock_call(t, b)
          \/ Free /\ \E b \in Buses : held[t][b] < MaxHold /\ i2cbus_trylock_call(t, b)
          \/ Free /\ \E b \in Buses : UnlockHeld(t, b)
          \/ Granted(t)
          \/ Proceed(t)

\* every step that need not wait is taken, and a thread waiting for a mutex
\* that is free again and again gets it
Fairness ==
    \A t \in Threads :
        /\ WF_vars(Proceed(t))
        /\ SF_vars(Granted(t))

SpecFair == Init /\ [][NextFair]_vars /\ Fairness

(* ------------------------------------------------------------------ *)
(* Handles opened by one thread, then write, read and xfer called by   *)
(* all threads with any arguments                                      *)
(* ------------------------------------------------------------------ *)
\* the setup of Next: the opening thread opens the descriptors in order
Setup ==
    \/ /\ phase = "setup"
       /\ \E d \in Devs \ opened, id \in Buses :
             /\ \A e \in Devs : e < d => e \in opened
             /\ i2cbus_open_call(Main, d, id, MinAddr)
    \/ i2cbus_open_inc(Main)
    \/ i2cbus_open_init(Main, -1)
    \/ i2cbus_open_body(Main, "ok")
    \/ Spawn

NextArgs ==
    \/ Setup
    \/ \E t \in Threads :
          \/ /\ Running
             /\ \E op \in {"write", "read"}, d \in Devs \cup {NULL}, bufNull \in BOOLEAN :
                   i2cbus_rw_call(t, op, d, bufNull)
          \/ i2cbus_rw_lock(t)
          \/ \E n \in -1..InLen : i2cbus_rw_io(t, n)
          \/ i2cbus_rw_unlock(t)
          \/ /\ Running
             /\ \E d \in Devs \cup {NULL}, outNull \in BOOLEAN, inNull \in BOOLEAN,
                   tmo \in {0, MaxTimeout} :
                   i2cbus_xfer_call(t, d, outNull, inNull, tmo)
          \/ i2cbus_xfer_lock(t)
          \/ \E n \in -1..OutLen : i2cbus_xfer_wr(t, n)
          \/ i2cbus_xfer_sleep(t)
          \/ \E n \in -1..InLen : i2cbus_xfer_rd(t, n)
          \/ i2cbus_xfer_unlock(t)
          \/ Return(t)

SpecArgs == Init /\ [][NextArgs]_vars

(* ------------------------------------------------------------------ *)
(* Handles opened and given a context by one thread, then used by all  *)
(* ------------------------------------------------------------------ *)
\* the caller's own assignment dev->ctx = I2CBUS_CTX_0, made after the open
SetCtx(d) ==
    /\ phase = "setup" /\ Idle(Main)
    /\ d \in opened /\ devs[d].ctx = NoCtx
    /\ devs' = [devs EXCEPT ![d].ctx = I2CBUS_CTX_0]
    /\ UNCHANGED <<i2clock_initd, i2cbus_locks, openFds, opened, thr, phase, ncalls,
                   reinit, held>>

NextCtx ==
    \/ Setup
    \/ \E d \in Devs : SetCtx(d)
    \/ \E t \in Threads :
          \/ /\ Running
             /\ \E op \in {"write", "read"}, d \in OpenHandles :
                   i2cbus_rw_call(t, op, d, FALSE)
          \/ i2cbus_rw_lock(t)
          \/ \E n \in -1..InLen : i2cbus_rw_io(t, n)
          \/ i2cbus_rw_unlock(t)
          \/ /\ Running
             /\ \E d \in OpenHandles, tmo \in {0, MaxTimeout} :
                   i2cbus_xfer_call(t, d, FALSE, FALSE, tmo)
          \/ i2cbus_xfer_lock(t)
          \/ \E n \in -1..OutLen : i2cbus_xfer_wr(t, n)
          \/ i2cbus_xfer_sleep(t)
          \/ \E n \in -1..InLen : i2cbus_xfer_rd(t, n)
          \/ i2cbus_xfer_unlock(t)
          \/ Return(t)

SpecCtx == Init /\ [][NextCtx]_vars

(* ------------------------------------------------------------------ *)
(* Handles opened by one thread; then the other threads call write,    *)
(* read and xfer with any arguments, every thread locks and unlocks    *)
(* the buses, and the opening thread closes handles                    *)
(* ------------------------------------------------------------------ *)
NextPaths ==
    \/ Setup
    \/ Running /\ \E d \in opened : i2cbus_close_call(Main, d)
    \/ i2cbus_close_dec(Main)
    \/ i2cbus_close_destroy(Main)
    \/ i2cbus_close_fd(Main)
    \/ \E t \in Threads \ {Main} :
          \/ /\ Running
             /\ \E op \in {"write", "read"}, d \in Devs \cup {NULL}, bufNull \in BOOLEAN :
                   i2cbus_rw_call(t, op, d, bufNull)
          \/ i2cbus_rw_lock(t)
          \/ \E n \in {-1, 0, InLen} : i2cbus_rw_io(t, n)
          \/ i2cbus_rw_unlock(t)
          \/ /\ Running
             /\ \E d \in Devs \cup {NULL}, outNull \in BOOLEAN, inNull \in BOOLEAN,
                   tmo \in {0, MaxTimeout} :
                   i2cbus_xfer_call(t, d, outNull, inNull, tmo)
          \/ i2cbus_xfer_lock(t)
          \/ \E n \in {-1, 0, OutLen} : i2cbus_xfer_wr(t, n)
          \/ i2cbus_xfer_sleep(t)
          \/ \E n \in {-1, InLen} : i2cbus_xfer_rd(t, n)
          \/ i2cbus_xfer_unlock(t)
    \/ \E t \in Threads :
          \/ Running /\ \E b \in Buses : i2cbus_lock_call(t, b)
          \/ i2cbus_lock_wait(t)
          \/ Running /\ \E b \in Buses : i2cbus_unlock(t, b)
          \/ Return(t)

SpecPaths == Init /\ [][NextPaths]_vars

(* ------------------------------------------------------------------ *)
(* Where a thread is                                                   *)
(* ------------------------------------------------------------------ *)
InTransportWrite(t) ==
    \/ thr[t].pc = "rw_io" /\ thr[t].op = "write"
    \/ thr[t].pc = "xfer_wr"

InTransportRead(t) ==
    \/ thr[t].pc = "rw_io" /\ thr[t].op = "read"
    \/ thr[t].pc = "xfer_rd"

InTransport(t) == InTransportWrite(t) \/ InTransportRead(t)

\* between the write phase and the end of the read phase of one i2cbus_xfer
InXferPhases(t) == thr[t].pc \in {"xfer_wr", "xfer_sleep", "xfer_rd"}

WaitsForLock(t) == thr[t].pc \in {"rw_lock", "xfer_lock"}

IOOps == {"write", "read", "xfer"}

\* the transport calls i2cbus_xfer must have made once write() returned wres
ExpectedLog(wres, tmo) ==
    IF wres # OutLen THEN <<"write">>
    ELSE IF tmo > 0 THEN <<"write", "sleep", "read">>
    ELSE <<"write", "read">>

(* ------------------------------------------------------------------ *)
(* Claims                                                              *)
(* ------------------------------------------------------------------ *)

\* C1: on every bus index at most one thread is inside the transport write at
\* any time, so two concurrent i2cbus_write calls on handles of one bus are
\* never interleaved.
C1_WritesNeverInterleave ==
    \A b \in Buses :
        Cardinality({t \in Threads : InTransportWrite(t) /\ thr[t].bus = b}) <= 1

\* two i2cbus_write calls on different handles of one bus: one inside write(),
\* the other waiting for the mutex
C1_Witness ==
    \E t1, t2 \in Threads :
        /\ t1 # t2
        /\ thr[t1].op = "write" /\ thr[t1].pc = "rw_io"
        /\ thr[t2].op = "write" /\ thr[t2].pc = "rw_lock"
        /\ thr[t1].bus = thr[t2].bus
        /\ thr[t1].dev # thr[t2].dev

\* C2: while a thread holds the mutex of bus b through i2cbus_lock (or a
\* successful i2cbus_trylock), no other thread is inside a transport read or
\* write on a handle of bus b: its write/read/xfer waits until the unlock.
C2_LockExcludesIO ==
    \A t1, t2 \in Threads : \A b \in Buses :
        (t1 # t2 /\ held[t1][b] > 0) => ~(InTransport(t2) /\ thr[t2].bus = b)

\* a thread holds the bus through i2cbus_lock and another thread's I/O call on
\* that bus waits for the mutex
C2_Witness ==
    \E t1, t2 \in Threads :
        /\ t1 # t2
        /\ held[t1][thr[t2].bus] > 0
        /\ WaitsForLock(t2)

\* C3: in i2cbus_xfer the transport write, the sleep (iff timeout_usec > 0 and
\* the write was complete) and the transport read happen in that order while
\* the calling thread holds the bus mutex without interruption, and no other
\* thread is inside a transport call on that bus between the phases.
C3_XferOneHold ==
    \A t \in Threads :
        /\ InXferPhases(t) =>
              /\ i2cbus_locks[thr[t].bus].owner = t
              /\ i2cbus_locks[thr[t].bus].count = thr[t].h0 + 1
              /\ \A u \in Threads \ {t} : ~(InTransport(u) /\ thr[u].bus = thr[t].bus)
        /\ thr[t].pc = "xfer_unlock" =>
              /\ i2cbus_locks[thr[t].bus].owner = t
              /\ thr[t].log = ExpectedLog(thr[t].wres, thr[t].tmo)
        /\ (thr[t].pc = "done" /\ thr[t].op = "xfer" /\ thr[t].log # <<>>) =>
              thr[t].log = ExpectedLog(thr[t].wres, thr[t].tmo)

\* an xfer with a sleep has read its reply while another thread's call on the
\* same bus waits
C3_Witness ==
    \E t, u \in Threads :
        /\ t # u
        /\ thr[t].pc = "xfer_unlock" /\ thr[t].tmo > 0
        /\ thr[t].log = <<"write", "sleep", "read">>
        /\ WaitsForLock(u) /\ thr[u].bus = thr[t].bus

C5_ReentrantIO ==
    \A t \in Threads :
        /\ (thr[t].pc = "rw_lock" /\ held[t][thr[t].bus] > 0) => ENABLED i2cbus_rw_lock(t)
        /\ (thr[t].pc = "xfer_lock" /\ held[t][thr[t].bus] > 0) => ENABLED i2cbus_xfer_lock(t)
        /\ (thr[t].pc = "done" /\ thr[t].op \in IOOps /\ thr[t].h0 > 0
              /\ held[t][thr[t].bus] > 0) =>
              /\ thr[t].log # <<>>
              /\ thr[t].ret = thr[t].status
              /\ i2cbus_locks[thr[t].bus].owner = t
              /\ i2cbus_locks[thr[t].bus].count = thr[t].h0
              /\ thr[t].h0 = held[t][thr[t].bus]

\* a write made under the caller's own i2cbus_lock has returned complete
C5_Witness ==
    \E t \in Threads :
        /\ thr[t].pc = "done" /\ thr[t].op = "write"
        /\ held[t][thr[t].bus] > 0
        /\ thr[t].ret = InLen
        /\ i2cbus_locks[thr[t].bus].owner = t

Unlocked(b) == i2cbus_locks[b].owner = NoThread /\ i2cbus_locks[b].count = 0

AllIdle == \A t \in Threads : thr[t].pc = "idle"

\* C6: a successful i2cbus_open immediately followed by i2cbus_close of the same
\* handle leaves i2clock_initd at its value before the open and every bus mutex
\* unlocked; N such rounds in sequence therefore do too.
C6_RoundRestores ==
    \A t \in Threads :
        (thr[t].pc = "done" /\ thr[t].op = "close" /\ thr[t].prev.op = "open"
            /\ thr[t].prev.ok /\ thr[t].prev.dev = thr[t].dev) =>
            /\ i2clock_initd = thr[t].prev.c0
            /\ \A b \in Buses : Unlocked(b)
            /\ thr[t].dev \notin opened

\* a second round in a row has been completed, the close of it having been the
\* last one (the mutexes are destroyed)
C6_Witness ==
    \E t \in Threads :
        /\ thr[t].pc = "done" /\ thr[t].op = "close" /\ thr[t].ret = 0
        /\ thr[t].prev.op = "open" /\ thr[t].prev.ok /\ thr[t].prev.dev = thr[t].dev
        /\ ncalls >= 4
        /\ i2clock_initd = 0
        /\ \A b \in Buses : i2cbus_locks[b].st = "destroyed"

\* C8: i2cbus_open with a slave address below 8 makes no transport call (no
\* open() of the device file, no ioctl) and returns an error, for every bus
\* index and every value of the use-count.
C8_BadAddrNoTransport ==
    \A t \in Threads :
        (thr[t].op = "open" /\ thr[t].addr < MinAddr) =>
            /\ thr[t].log = <<>>
            /\ thr[t].pc = "done" => thr[t].ret = -1

\* an open of a valid descriptor on a valid bus with address 7 has returned -1
\* while another handle was open
C8_Witness ==
    \E t \in Threads :
        /\ thr[t].pc = "done" /\ thr[t].op = "open"
        /\ thr[t].addr < MinAddr /\ thr[t].dev # NULL /\ thr[t].bus < I2CBUS_MAX_NUM
        /\ thr[t].status = -5 /\ thr[t].ret = -1
        /\ opened # {}

\* C9 as stated: a failing i2cbus_open leaves the use-count, the initialised
\* state of every bus mutex and the set of open transport descriptors as they
\* were before the call.
C9_FailedOpenNoEffect ==
    \A t \in Threads :
        (thr[t].pc = "done" /\ thr[t].op = "open" /\ thr[t].ret < 0) =>
            /\ i2clock_initd = thr[t].snap.initd
            /\ \A b \in Buses : i2cbus_locks[b].st = thr[t].snap.st[b]
            /\ openFds = thr[t].snap.fds

\* C10 as stated: between calls the use-count is the number of open handles,
\* the bus mutexes are initialised exactly when it is positive, and no mutex is
\* initialised twice without a destroy in between.
C10_CountIsOpenHandles ==
    AllIdle =>
        /\ i2clock_initd = Cardinality(opened)
        /\ \A b \in Buses : (i2cbus_locks[b].st = "init") <=> (i2clock_initd > 0)
        /\ ~reinit

\* C11 as stated: i2cbus_close on a NULL handle or on a handle that is not
\* open returns a negative value and changes nothing: the use-count, the
\* state of every bus mutex and the set of open transport descriptors are as
\* before the call, and no transport close was issued.
C11_CloseInvalidNoEffect ==
    \A t \in Threads :
        (/\ thr[t].pc = "done" /\ thr[t].op = "close"
         /\ (thr[t].dev = NULL \/ thr[t].dev \notin thr[t].snap.opened)) =>
            /\ thr[t].ret < 0
            /\ i2clock_initd = thr[t].snap.initd
            /\ \A b \in Buses : i2cbus_locks[b].st = thr[t].snap.st[b]
            /\ openFds = thr[t].snap.fds
            /\ thr[t].log = <<>>

\* C12 as stated: a write, read or xfer called with a NULL descriptor, a
\* descriptor whose fd is negative or a NULL buffer returns a negative value
\* at once: no bus mutex changes and no transport call is made.
C12_BadArgsFailFast ==
    [][\A t \in Threads, d \in Devs \cup {NULL}, b1 \in BOOLEAN, b2 \in BOOLEAN :
          LET bad == d = NULL \/ BadArgs(d, b1) \/ b2
              called == \/ \E op \in {"write", "read"} :
                              ~b2 /\ i2cbus_rw_call(t, op, d, b1)
                        \/ \E tmo \in {0, MaxTimeout} :
                              i2cbus_xfer_call(t, d, b1, b2, tmo)
          IN (bad /\ called) =>
                /\ thr'[t].pc = "done" /\ thr'[t].ret < 0
                /\ thr'[t].log = <<>>
                /\ i2cbus_locks' = i2cbus_locks]_vars

\* C13 as stated, its first part: a write, read or xfer on a descriptor whose
\* context is set never waits for the bus mutex; whoever holds the mutex,
\* the call's acquire step can be taken at once.
C13_ContextNeverBlocks ==
    \A t \in Threads :
        (/\ thr[t].pc \in {"rw_lock", "xfer_lock"}
         /\ devs[thr[t].dev].ctx # NoCtx) =>
            ENABLED (i2cbus_rw_lock(t) \/ i2cbus_xfer_lock(t))

\* no open handle of bus b has a context
NoContextOn(b) == \A d \in opened : devs[d].lock = b => devs[d].ctx = NoCtx

C15_CloseReleasesFd ==
    \A t \in Threads :
        (/\ thr[t].pc = "done" /\ thr[t].op = "close"
         /\ thr[t].dev # NULL /\ thr[t].dev \in thr[t].snap.opened) =>
            /\ thr[t].log = <<"close">>
            /\ thr[t].dev \notin opened
            /\ devs[thr[t].dev].fd \notin openFds

\* between the acquire and the release of the mutex in write, read or xfer
InsideIO(t) ==
    thr[t].pc \in {"rw_io", "rw_unlock", "xfer_wr", "xfer_sleep", "xfer_rd", "xfer_unlock"}

\* C16: lock balance of write, read and xfer.  At every moment a thread's
\* hold count on a bus mutex is the number of holds it took itself with
\* i2cbus_lock and has not given back, plus one while it is between the
\* acquire and the release of a write, read or xfer on that bus; so when such
\* a call has returned, on whatever path, the caller's hold count on every bus
\* is what it was at entry, and no step of the call has changed the holds of
\* another thread.  (A process killed by a fault has no threads and no
\* return path.)
C16_LockBalance ==
    Alive => \A t \in Threads :
        /\ \A b \in Buses :
              HoldCount(t, b) =
                  held[t][b] + (IF InsideIO(t) /\ thr[t].bus = b THEN 1 ELSE 0)
        /\ (thr[t].pc = "done" /\ thr[t].op \in IOOps /\ thr[t].dev # NULL
            /\ ~(devs[thr[t].dev].fd < 0)) =>
               \/ thr[t].ret = -1 /\ thr[t].log = <<>>
               \/ HoldCount(t, thr[t].bus) = thr[t].h0

\* an xfer whose write was short has returned to a thread that held the bus
\* mutex at entry, while the other thread holds the other bus
C16_Witness ==
    \E t \in Threads :
        /\ thr[t].pc = "done" /\ thr[t].op = "xfer"
        /\ thr[t].wres >= 0 /\ thr[t].wres < OutLen /\ thr[t].ret = thr[t].wres
        /\ thr[t].h0 = 1 /\ HoldCount(t, thr[t].bus) = 1
        /\ \E u \in Threads \ {t}, b \in Buses : HoldCount(u, b) = 1

\* the descriptor is open and no open or close of it is in progress
StablyOpen(d) ==
    /\ d \in opened
    /\ \A t \in Threads : (thr[t].op \in {"open", "close"} /\ thr[t].dev = d) =>
                          thr[t].pc = "idle"

\* C17 as stated: whenever a descriptor is open, the mutex of its bus is
\* initialised and not destroyed, and no write or read is about to lock a
\* mutex that is not initialised.
C17_SlotsOutliveHandles ==
    /\ \A d \in Devs : StablyOpen(d) => i2cbus_locks[devs[d].lock].st = "init"
    /\ \A t \in Threads :
          thr[t].pc = "rw_lock" => i2cbus_locks[thr[t].bus].st = "init"

\* C18 as stated: with opens and closes running concurrently no update of the
\* use-count is lost, so that between calls the count is the number of open
\* descriptors, and no mutex is initialised over an initialised one.
C18_CountAtomic ==
    /\ ~reinit
    /\ AllIdle => i2clock_initd = Cardinality(opened)

\* a call of lock, trylock or unlock by t with the bus index b
LockOpCalled(t, b) ==
    i2cbus_lock_call(t, b) \/ i2cbus_trylock_call(t, b) \/ i2cbus_unlock(t, b)

\* C20 as stated: i2cbus_unlock by a thread that does not hold the mutex of
\* the bus returns a negative value and leaves the mutex as it was; lock,
\* trylock and unlock with a bus index >= I2CBUS_MAX_NUM return -100 and
\* change no mutex.
C20_UnlockNotHeldFails ==
    [][\A t \in Threads, b \in BusArgs :
          /\ (b < I2CBUS_MAX_NUM /\ i2cbus_locks[b].owner # t /\ i2cbus_unlock(t, b)) =>
                /\ thr'[t].ret < 0
                /\ i2cbus_locks' = i2cbus_locks
          /\ (b >= I2CBUS_MAX_NUM /\ LockOpCalled(t, b)) =>
                /\ thr'[t].pc = "done" /\ thr'[t].ret = -BadBus
                /\ i2cbus_locks' = i2cbus_locks]_vars

\* C20 amended: once the bus mutexes have been initialised by an open (they
\* are then recursive mutexes, which check their owner), i2cbus_unlock by a
\* thread that does not hold the mutex returns a negative value and leaves
\* the mutex as it was; with a bus index >= I2CBUS_MAX_NUM lock, trylock and
\* unlock return -100 and change no mutex, initialised or not.
C20_UnlockNotHeldFailsOnceInit ==
    [][\A t \in Threads, b \in BusArgs :
          /\ (/\ b < I2CBUS_MAX_NUM /\ i2cbus_locks[b].owner # t
              /\ i2cbus_locks[b].st # "uninit" /\ i2cbus_unlock(t, b)) =>
                /\ thr'[t].ret < 0
                /\ i2cbus_locks' = i2cbus_locks
          /\ (b >= I2CBUS_MAX_NUM /\ LockOpCalled(t, b)) =>
                /\ thr'[t].pc = "done" /\ thr'[t].ret = -BadBus
                /\ i2cbus_locks' = i2cbus_locks]_vars

\* i2cbus_unlock has returned -EPERM to a thread while another thread holds
\* the initialised mutex, and the mutex is as it was
C20_Witness ==
    \E t \in Threads :
        /\ thr[t].pc = "done" /\ thr[t].op = "unlock" /\ thr[t].ret = -EPERM
        /\ thr[t].bus < I2CBUS_MAX_NUM
        /\ thr[t].obs[1].st = "init" /\ thr[t].obs[1].owner \notin {NoThread, t}
        /\ thr[t].obs[2] = thr[t].obs[1]
        /\ i2cbus_locks[thr[t].bus] = thr[t].obs[1]

\* the thread is in pthread_mutex_lock and the mutex is held by another thread
Blocked(t) ==
    /\ thr[t].pc \in {"rw_lock", "xfer_lock", "lock_wait"}
    /\ i2cbus_locks[thr[t].bus].owner \notin {NoThread, t}

\* a write, read or xfer has been entered and has not returned
InIOCall(t) ==
    thr[t].op \in IOOps /\ thr[t].pc \notin {"idle", "done"}

NoCrossWait ==
    \A t \in Threads :
        thr[t].pc \in {"rw_lock", "xfer_lock", "lock_wait"} =>
            \A b \in Buses \ {thr[t].bus} : HoldCount(t, b) = 0

\* every thread gives back its explicit holds again and again
HoldsGivenBack == \A t \in Threads, b \in Buses : []<>(held[t][b] = 0)

====
